---------------------------- MODULE Spec2Model ----------------------------
(***************************************************************************)
(* A model of the message envelope layer of zenoh:                         *)
(*   - Attachment / AttachmentBuilder / AttachmentIterator (sample.rs)     *)
(*   - Selector / Parameters                               (selector.rs)   *)
(*   - QoS                                                 (sample.rs)     *)
(*   - Sample / DataInfo / SourceInfo                      (sample.rs)     *)
(*   - Compatibility                          (zenoh-plugin-trait/lib.rs)  *)
(* Each subsystem has its own specification over the shared variables; the *)
(* variables of the other subsystems stay at their idle values.            *)
(*                                                                         *)
(* Bytes are the integers 0..255, byte strings are sequences of bytes,     *)
(* text is a sequence of one-character strings.                            *)
(***************************************************************************)
EXTENDS Integers, Sequences, FiniteSets, TLC

VARIABLES
    \* ---- Attachment subsystem
    builder,      \* AttachmentBuilder.inner (Vec<u8>), or None when no builder is alive
    builderLog,   \* history: the pairs inserted into the live builder, in order
    att,          \* the Attachment ([inner |-> ZBuf]), or None before it exists
    origin,       \* history: "none" | "built" | "wire"
    operands,     \* history: the pair sequences the Attachment was made of, in order
    truncated,    \* history: the wire stream ended in a truncated field
    reader,       \* AttachmentIterator.reader: bytes consumed so far, or None
    yielded,      \* history: the pairs the open iterator has returned so far
    iterState,    \* "idle" | "active" | "ended" (next() returned None)
    hint          \* what size_hint() returned for the open iterator, or None

    ,
    \* ---- Selector subsystem
    input,        \* history: the text given to the parser, or None
    via,          \* history: "none" | "str" | "String" | "FromStr" | "tuple": how sel was made
    sel,          \* Result<Selector>: None before one was made
    shown,        \* the text Display wrote for sel, or None
    reparsed,     \* Result<Selector> of parsing shown, or None
    asked,        \* history: the name a keyed accessor was called with, or None
    got           \* what the keyed accessor returned, or None

    ,
    \* ---- QoS subsystem
    qos,          \* QoS ([inner |-> the QoSType byte]), or None before it exists
    qosOrigin,    \* history: "none" | "default" | "wire"
    wire,         \* history: the fields the sender packed into the received byte
    lastSet       \* history: per field, the value last given to its setter
    ,
    \* ---- Sample subsystem
    sample,       \* the Sample, or None before it is constructed
    ctor,         \* history: the arguments the Sample was constructed from
    now,          \* the system clock read by new_reception_timestamp()
    lastOp,       \* history: the last step taken (an operation, or "tick")
    ret,          \* what that operation returned, or None
    given         \* history: the argument of the last copy-with-change call, or None

    ,
    \* ---- Attachments that share storage
    store,        \* the reference-counted byte storages, by index
    holders,      \* per holder: its Attachment (inner: views into store), or None
    actor,        \* history: the holder the last step was called on, or None
    call,         \* history: the last operation and its arguments, or None
    result,       \* what a read operation returned, or None
    seen          \* history: per holder, the pairs last iterated from it since
                  \* its last insert or extend, or None
    ,
    \* ---- Parameters under keyed writes
    ownedParams,  \* the Parameters (their text), or None before they exist
    startText,    \* history: the text the Parameters were made from
    latest,       \* history: per name, None, or Some of what was last written:
                  \* Some(value), or None when the name was removed
    written,      \* history: the last write ([op, arg]: what set_time_range was
                  \* given), or None
    retrieved     \* what a read since the last write returned ([op, name, value]), or None
    ,
    \* ---- Compatibility
    descriptors,  \* the two Compatibility values at hand, or None
    compared,     \* history: which of them are_compatible was called with
    verdict       \* what are_compatible returned, or None

attVars == <<builder, builderLog, att, origin, operands, truncated, reader, yielded, iterState,
            hint>>

selVars == <<input, via, sel, shown, reparsed, asked, got>>

qosVars == <<qos, qosOrigin, wire, lastSet>>

sampleVars == <<sample, ctor, now, lastOp, ret, given>>

holderVars == <<store, holders, actor, call, result, seen>>

paramVars == <<ownedParams, startText, latest, written, retrieved>>

compatVars == <<descriptors, compared, verdict>>

vars == <<attVars, selVars, qosVars, sampleVars, holderVars, paramVars, compatVars>>

\* what the actions of one subsystem leave alone
notAttVars == <<selVars, qosVars, sampleVars, holderVars, paramVars, compatVars>>

notSelVars == <<attVars, qosVars, sampleVars, holderVars, paramVars, compatVars>>

notQosVars == <<attVars, selVars, sampleVars, holderVars, paramVars, compatVars>>

notSampleVars == <<attVars, selVars, qosVars, holderVars, paramVars, compatVars>>

notHolderVars == <<attVars, selVars, qosVars, sampleVars, paramVars, compatVars>>

notParamVars == <<attVars, selVars, qosVars, sampleVars, holderVars, compatVars>>

notCompatVars == <<attVars, selVars, qosVars, sampleVars, holderVars, paramVars>>

\* Option<T>: None, or Some(x)
None == <<>>

Some(x) == <<x>>

IsSome(o) == o # <<>>

Unwrap(o) == o[1]

(***************************************************************************)
(* Bounds of the model                                                     *)
(***************************************************************************)
\* pairs held by one Attachment (built or extended)
MaxPairs == 3
\* operands an Attachment is made of: A, then .extend(B), then .extend(C)
MaxOperands == 3
\* complete pairs in front of the truncated field of a received stream
MaxWirePairs == 2
\* length of the long key: its length prefix takes two bytes
LongLen == 130
\* length of the arbitrary texts given to the Selector parsers
MaxTextLen == 4
\* entries of the composed parameter texts
MaxEntries == 2
\* the last reading of the system clock
MaxClock == 2
\* bytes in the stream of an Attachment that shares storage
MaxStream == 6
\* length of the truncated field behind a received shared stream
MaxTailLen == 3
\* struct layouts declared by one Compatibility
MaxStructs == 2

(***************************************************************************)
(* Generic helpers                                                         *)
(***************************************************************************)
RECURSIVE Flatten(_)
Flatten(ss) == IF ss = <<>> THEN <<>> ELSE Head(ss) \o Flatten(Tail(ss))

RECURSIVE SeqsUpTo(_, _)
SeqsUpTo(S, n) ==
    IF n = 0 THEN {<<>>}
    ELSE LET shorter == SeqsUpTo(S, n - 1)
         IN  shorter \cup {Append(s, x) : s \in {t \in shorter : Len(t) = n - 1}, x \in S}

(***************************************************************************)
(* Input alphabet of the Attachment subsystem                              *)
(***************************************************************************)
LongKey == [i \in 1..LongLen |-> 0]

\* empty key and value; a repeated key; bytes that are no valid UTF-8
\* (255, 128); a key whose length needs a two-byte prefix
Pairs ==
    { <<<<>>, <<>>>>,
      <<<<97>>, <<49>>>>,
      <<<<97>>, <<255, 128>>>>,
      <<<<255>>, <<>>>>,
      <<LongKey, <<98>>>> }

(***************************************************************************)
(* Zenoh080: the length-prefixed field codec                               *)
(***************************************************************************)
\* payload bits of one byte of a variable-length integer
VLE_BITS == 7

VLE_BASE == 2 ^ VLE_BITS

\* an unsigned integer, 7 bits per byte, low bits first, high bit = more
RECURSIVE Zenoh080_write_u64(_)
Zenoh080_write_u64(x) ==
    IF x < VLE_BASE THEN <<x>>
    ELSE <<(x % VLE_BASE) + VLE_BASE>> \o Zenoh080_write_u64(x \div VLE_BASE)

\* a byte string: its length, then its bytes
Zenoh080_write_bytes(bytes) == Zenoh080_write_u64(Len(bytes)) \o bytes

DidntRead == [ok |-> FALSE]

\* every length from LEN_CAP on is longer than any stream here and fails to
\* read in the same way: the decoded integer is kept exact below it
LEN_CAP == VLE_BASE * VLE_BASE * VLE_BASE

Saturate(x) == IF x > LEN_CAP THEN LEN_CAP ELSE x

RECURSIVE Zenoh080_read_vle(_, _, _, _)
Zenoh080_read_vle(buf, pos, mult, acc) ==
    IF pos >= Len(buf) THEN DidntRead
    ELSE LET b == buf[pos + 1]
         IN  IF b >= VLE_BASE
             THEN Zenoh080_read_vle(buf, pos + 1, Saturate(mult * VLE_BASE),
                                    Saturate(acc + (b - VLE_BASE) * mult))
             ELSE [ok |-> TRUE, value |-> Saturate(acc + b * mult), pos |-> pos + 1]

Zenoh080_read_u64(buf, pos) == Zenoh080_read_vle(buf, pos, 1, 0)

\* a byte string: the length, then that many bytes; fails when the stream
\* ends before the length or the bytes are complete
Zenoh080_read_zslice(buf, pos) ==
    LET len == Zenoh080_read_u64(buf, pos)
    IN  IF ~len.ok THEN DidntRead
        ELSE IF len.pos + len.value > Len(buf) THEN DidntRead
        ELSE [ok |-> TRUE,
              value |-> SubSeq(buf, len.pos + 1, len.pos + len.value),
              pos |-> len.pos + len.value]

(***************************************************************************)
(* ZBuf: a sequence of non-empty slices read as one stream                 *)
(***************************************************************************)
ZBuf_empty == <<>>

ZBuf_push_zslice(zbuf, zslice) ==
    IF zslice = <<>> THEN zbuf ELSE Append(zbuf, zslice)

\* Vec<u8> -> ZBuf: the vector becomes the one slice
ZBuf_from_vec(vec) == ZBuf_push_zslice(ZBuf_empty, vec)

ZBuf_zslices(zbuf) == zbuf

\* the stream a reader of the buffer sees
ZBuf_reader(zbuf) == Flatten(zbuf)

(***************************************************************************)
(* AttachmentBuilder                                                       *)
(***************************************************************************)
AttachmentBuilder_new == <<>>

AttachmentBuilder__insert_value_first(inner, key, value) ==
    inner \o Zenoh080_write_bytes(value) \o Zenoh080_write_bytes(key)

AttachmentBuilder__insert(inner, key, value) ==
    inner \o Zenoh080_write_bytes(key) \o Zenoh080_write_bytes(value)

AttachmentBuilder_build(inner) == [inner |-> ZBuf_from_vec(inner)]

\* impl From<AttachmentBuilder> for Attachment
Attachment_from_AttachmentBuilder(inner) == [inner |-> ZBuf_from_vec(inner)]

RECURSIVE AttachmentBuilder_from_iter_loop(_, _)
AttachmentBuilder_from_iter_loop(buffer, pairs) ==
    IF pairs = <<>> THEN buffer
    ELSE AttachmentBuilder_from_iter_loop(
             buffer \o Zenoh080_write_bytes(Head(pairs)[1])
                    \o Zenoh080_write_bytes(Head(pairs)[2]),
             Tail(pairs))

AttachmentBuilder_from_iter(pairs) == AttachmentBuilder_from_iter_loop(<<>>, pairs)

Attachment_from_iter(pairs) ==
    Attachment_from_AttachmentBuilder(AttachmentBuilder_from_iter(pairs))

(***************************************************************************)
(* Attachment                                                              *)
(***************************************************************************)
Attachment_new == [inner |-> ZBuf_empty]

\* impl From<AttachmentType<ID>> for Attachment: the received buffer as is
Attachment_from_AttachmentType(buffer) == [inner |-> buffer]

RECURSIVE Attachment__extend_loop(_, _)
Attachment__extend_loop(inner, slices) ==
    IF slices = <<>> THEN inner
    ELSE Attachment__extend_loop(ZBuf_push_zslice(inner, Head(slices)), Tail(slices))

Attachment__extend_in_front(self, with) ==
    [inner |-> Attachment__extend_loop(with.inner, ZBuf_zslices(self.inner))]

Attachment__extend(self, with) ==
    [inner |-> Attachment__extend_loop(self.inner, ZBuf_zslices(with.inner))]

\* extend(with: impl Into<Self>), called with an AttachmentBuilder
Attachment_extend(self, withBuilder) ==
    Attachment__extend(self, Attachment_from_AttachmentBuilder(withBuilder))

(***************************************************************************)
(* AttachmentIterator                                                      *)
(***************************************************************************)
\* into_iter: a fresh reader at the start of the buffer
Attachment_into_iter(self) == 0

AttachmentIterator_next_default_value(buf, pos) ==
    LET key == Zenoh080_read_zslice(buf, pos)
    IN  IF ~key.ok THEN [some |-> FALSE]
        ELSE LET value == Zenoh080_read_zslice(buf, key.pos)
             IN  IF ~value.ok
                 THEN [some |-> TRUE, item |-> <<key.value, <<>>>>, pos |-> Len(buf)]
                 ELSE [some |-> TRUE, item |-> <<key.value, value.value>>, pos |-> value.pos]

\* next: None as soon as the key or the value cannot be read
AttachmentIterator_next(buf, pos) ==
    LET key == Zenoh080_read_zslice(buf, pos)
    IN  IF ~key.ok THEN [some |-> FALSE]
        ELSE LET value == Zenoh080_read_zslice(buf, key.pos)
             IN  IF ~value.ok THEN [some |-> FALSE]
                 ELSE [some |-> TRUE, item |-> <<key.value, value.value>>, pos |-> value.pos]

\* the bytes the reader has not read
ZBufReader_remaining(buf, pos) == Len(buf) - pos

\* size_hint: (remaining != 0) as usize, Some(remaining / 2)
AttachmentIterator_size_hint(buf, pos) ==
    LET remaining == ZBufReader_remaining(buf, pos)
    IN  <<IF remaining # 0 THEN 1 ELSE 0, Some(remaining \div 2)>>

\* iter().collect(): next() until it returns None
RECURSIVE AttachmentIterator_collect(_, _)
AttachmentIterator_collect(buf, pos) ==
    LET r == AttachmentIterator_next(buf, pos)
    IN  IF r.some THEN <<r.item>> \o AttachmentIterator_collect(buf, r.pos) ELSE <<>>

Attachment_pairs(self) ==
    AttachmentIterator_collect(ZBuf_reader(self.inner), Attachment_into_iter(self))

(***************************************************************************)
(* Received streams: complete pairs, then a field cut short                *)
(***************************************************************************)
\* every proper, non-empty prefix of the encoding of one pair
TruncatedTails ==
    UNION { { SubSeq(e, 1, c) : c \in 1..(Len(e) - 1) }
            : e \in { AttachmentBuilder_from_iter(<<p>>) : p \in Pairs } }

(***************************************************************************)
(* Actions of the Attachment subsystem                                     *)
(***************************************************************************)
PairsHeld == Len(Flatten(operands)) + Len(builderLog)

IterIdle == reader = None /\ yielded = <<>> /\ iterState = "idle" /\ hint = None

IterReset == reader' = None /\ yielded' = <<>> /\ iterState' = "idle" /\ hint' = None

AttachmentIdle ==
    /\ builder = None /\ builderLog = <<>> /\ att = None /\ origin = "none"
    /\ operands = <<>> /\ truncated = FALSE /\ IterIdle

SelectorIdle ==
    /\ input = None /\ via = "none" /\ sel = None /\ shown = None
    /\ reparsed = None /\ asked = None /\ got = None

QoSIdle ==
    /\ qos = None /\ qosOrigin = "none" /\ wire = None /\ lastSet = None

SampleIdle ==
    /\ sample = None /\ ctor = None /\ now = 0 /\ lastOp = "none" /\ ret = None
    /\ given = None

HoldersIdle ==
    /\ store = <<>> /\ holders = [h \in {"X", "Y"} |-> None] /\ actor = None
    /\ call = None /\ result = None /\ seen = [h \in {"X", "Y"} |-> None]

ParametersIdle ==
    /\ ownedParams = None /\ startText = None /\ latest = None /\ written = None
    /\ retrieved = None

CompatibilityIdle ==
    /\ descriptors = None /\ compared = None /\ verdict = None

AllIdle ==
    /\ AttachmentIdle /\ SelectorIdle /\ QoSIdle /\ SampleIdle
    /\ HoldersIdle /\ ParametersIdle /\ CompatibilityIdle

InitAttachment == AllIdle

\* AttachmentBuilder::new()
BuilderNew ==
    /\ builder = None
    /\ origin # "wire"
    /\ Len(operands) < MaxOperands
    /\ builder' = Some(AttachmentBuilder_new)
    /\ builderLog' = <<>>
    /\ UNCHANGED <<att, origin, operands, truncated, reader, yielded, iterState, hint>>
    /\ UNCHANGED notAttVars

\* builder.insert(key, value)
BuilderInsert ==
    /\ IsSome(builder)
    /\ PairsHeld < MaxPairs
    /\ \E p \in Pairs :
        /\ builder' = Some(AttachmentBuilder__insert(Unwrap(builder), p[1], p[2]))
        /\ builderLog' = Append(builderLog, p)
    /\ UNCHANGED <<att, origin, operands, truncated, reader, yielded, iterState, hint>>
    /\ UNCHANGED notAttVars

\* let att = builder.build()
BuilderBuild ==
    /\ IsSome(builder)
    /\ att = None
    /\ att' = Some(AttachmentBuilder_build(Unwrap(builder)))
    /\ origin' = "built"
    /\ operands' = <<builderLog>>
    /\ builder' = None
    /\ builderLog' = <<>>
    /\ UNCHANGED <<truncated, reader, yielded, iterState, hint>>
    /\ UNCHANGED notAttVars

\* att.extend(builder): the iterator borrows att, so none is open
AttachmentExtend ==
    /\ IsSome(builder)
    /\ IsSome(att)
    /\ att' = Some(Attachment_extend(Unwrap(att), Unwrap(builder)))
    /\ operands' = Append(operands, builderLog)
    /\ builder' = None
    /\ builderLog' = <<>>
    /\ IterReset
    /\ UNCHANGED <<origin, truncated>>
    /\ UNCHANGED notAttVars

\* an Attachment received from the network
AttachmentReceive ==
    /\ att = None
    /\ builder = None
    /\ \E ps \in SeqsUpTo(Pairs, MaxWirePairs), tail \in TruncatedTails \cup {<<>>} :
        /\ att' = Some(Attachment_from_AttachmentType(
                           ZBuf_from_vec(AttachmentBuilder_from_iter(ps) \o tail)))
        /\ operands' = <<ps>>
        /\ truncated' = (tail # <<>>)
    /\ origin' = "wire"
    /\ UNCHANGED <<builder, builderLog, reader, yielded, iterState, hint>>
    /\ UNCHANGED notAttVars

\* att.iter()
AttachmentIter ==
    /\ IsSome(att)
    /\ reader' = Some(Attachment_into_iter(Unwrap(att)))
    /\ yielded' = <<>>
    /\ iterState' = "active"
    /\ hint' = None
    /\ UNCHANGED <<builder, builderLog, att, origin, operands, truncated>>
    /\ UNCHANGED notAttVars

\* iterator.next()
IteratorNext ==
    /\ iterState = "active"
    /\ LET r == AttachmentIterator_next(ZBuf_reader(Unwrap(att).inner), Unwrap(reader))
       IN  IF r.some
           THEN /\ reader' = Some(r.pos)
                /\ yielded' = Append(yielded, r.item)
                /\ iterState' = "active"
           ELSE /\ iterState' = "ended"
                /\ UNCHANGED <<reader, yielded>>
    /\ hint' = None
    /\ UNCHANGED <<builder, builderLog, att, origin, operands, truncated>>
    /\ UNCHANGED notAttVars

\* iterator.size_hint(), before next() returned None: where a read that
\* failed leaves the reader is not decided in sample.rs
IteratorSizeHint ==
    /\ iterState = "active"
    /\ hint' = Some(AttachmentIterator_size_hint(ZBuf_reader(Unwrap(att).inner), Unwrap(reader)))
    /\ UNCHANGED <<builder, builderLog, att, origin, operands, truncated, reader, yielded,
                   iterState>>
    /\ UNCHANGED notAttVars

NextAttachment ==
    \/ BuilderNew
    \/ BuilderInsert
    \/ BuilderBuild
    \/ AttachmentExtend
    \/ AttachmentReceive
    \/ AttachmentIter
    \/ IteratorNext
    \/ IteratorSizeHint

SpecAttachment == InitAttachment /\ [][NextAttachment]_vars

(***************************************************************************)
(* Claims about the Attachment subsystem                                   *)
(***************************************************************************)
IsPrefixOf(s, t) == Len(s) <= Len(t) /\ s = SubSeq(t, 1, Len(s))

\* C1 -- Attachment round trip: the pairs inserted into a fresh builder, in
\* order, are exactly what build() followed by iter() yields: every pair
\* returned so far is the next inserted one, and the iteration ends only
\* when all of them were returned.
C1_AttachmentRoundTrip ==
    (origin = "built" /\ Len(operands) = 1 /\ iterState # "idle") =>
        /\ IsPrefixOf(yielded, operands[1])
        /\ iterState = "ended" => yielded = operands[1]

\* an empty pair, a repeated key and a value that is no UTF-8 went through;
\* the buffer is the concatenation of the length-prefixed fields
C1_Witness ==
    /\ origin = "built" /\ Len(operands) = 1 /\ iterState = "ended"
    /\ operands[1] = << <<<<>>, <<>>>>, <<<<97>>, <<49>>>>, <<<<97>>, <<255, 128>>>> >>
    /\ Unwrap(att).inner = << <<0, 0, 1, 97, 1, 49, 1, 97, 2, 255, 128>> >>
    /\ yielded = operands[1]

\* C5 -- Lenient decode: iterating a received stream of n complete pairs
\* followed by a truncated field yields those n pairs, in order, and ends.
C5_LenientDecode ==
    (origin = "wire" /\ truncated /\ iterState # "idle") =>
        /\ IsPrefixOf(yielded, operands[1])
        /\ iterState = "ended" => yielded = operands[1]

\* two complete pairs were yielded in front of a truncated field, and the
\* iteration ended with unread bytes left in the buffer
C5_Witness ==
    /\ origin = "wire" /\ truncated /\ iterState = "ended"
    /\ Len(yielded) = 2
    /\ Unwrap(reader) < Len(ZBuf_reader(Unwrap(att).inner))

\* C18 -- size_hint bounds what the iterator yields: whenever it is asked
\* during an iteration, of a well-formed or a truncated stream, the number of
\* pairs the iterator yields from there on is at least the lower bound and at
\* most the upper bound it returned.
C18_SizeHintBounds ==
    IsSome(hint) =>
        LET rest == Len(AttachmentIterator_collect(ZBuf_reader(Unwrap(att).inner), Unwrap(reader)))
        IN  /\ Unwrap(hint)[1] <= rest
            /\ rest <= Unwrap(Unwrap(hint)[2])

\* C6 -- Extend: an Attachment made of A extended by B (and then by C)
\* iterates to A's pairs, then B's, then C's, which is what one Attachment
\* built from the concatenated pair sequence iterates to.
C6_ExtendAssociativity ==
    (origin = "built" /\ Len(operands) >= 2 /\ iterState = "ended") =>
        /\ yielded = Flatten(operands)
        /\ yielded = Attachment_pairs(Attachment_from_iter(Flatten(operands)))

\* A.extend(B).extend(C) with three non-empty operands kept in three slices
C6_Witness ==
    /\ origin = "built" /\ Len(operands) = 3 /\ iterState = "ended"
    /\ \A i \in 1..3 : operands[i] # <<>>
    /\ Len(Unwrap(att).inner) = 3
    /\ Len(yielded) = 3

(***************************************************************************)
(* Text: sequences of one-character strings                                *)
(***************************************************************************)
\* str::find(char): the 0-based place of the first occurrence
str_find(s, c) ==
    IF \E i \in 1..Len(s) : s[i] = c
    THEN Some((CHOOSE i \in 1..Len(s) : s[i] = c /\ \A j \in 1..(i - 1) : s[j] # c) - 1)
    ELSE None

\* str::rfind(char): the 0-based place of the last occurrence
str_rfind(s, c) ==
    IF \E i \in 1..Len(s) : s[i] = c
    THEN Some((CHOOSE i \in 1..Len(s) : s[i] = c /\ \A j \in (i + 1)..Len(s) : s[j] # c) - 1)
    ELSE None

\* str::split(char): the pieces between the separators, empty ones included
RECURSIVE str_split(_, _)
str_split(s, c) ==
    LET at == str_find(s, c)
    IN  IF IsSome(at)
        THEN <<SubSeq(s, 1, Unwrap(at))>> \o str_split(SubSeq(s, Unwrap(at) + 2, Len(s)), c)
        ELSE <<s>>

RECURSIVE Join(_, _)
Join(texts, c) ==
    IF texts = <<>> THEN <<>>
    ELSE IF Len(texts) = 1 THEN texts[1]
    ELSE texts[1] \o <<c>> \o Join(Tail(texts), c)

Ok(x) == [ok |-> TRUE, val |-> x]

Err(e) == [ok |-> FALSE, err |-> e]

(***************************************************************************)
(* KeyExpr: validated outside this layer. A key expression is a non-empty  *)
(* text of '/'-separated non-empty chunks without '?' or '#'.              *)
(***************************************************************************)
KeyExpr_is_valid(t) ==
    /\ t # <<>>
    /\ \A i \in 1..Len(t) : t[i] \notin {"?", "#"}
    /\ \A chunk \in {str_split(t, "/")[i] : i \in 1..Len(str_split(t, "/"))} : chunk # <<>>

KeyExpr_try_from(t) == IF KeyExpr_is_valid(t) THEN Ok(t) ELSE Err("InvalidKeyExpr")

(***************************************************************************)
(* Properties: the text of the parameters, entries separated by ';',       *)
(* name and value separated by the first '='                               *)
(***************************************************************************)
LIST_SEPARATOR == ";"

FIELD_SEPARATOR == "="

Properties_default == <<>>

\* From<&str> / From<String>: the text is kept
Properties_from(text) == text

Properties_as_str(props) == props

Properties_is_empty(props) == props = <<>>

\* "name=value" -> <<name, value>>, "name" -> <<name, "">>
split_once(entry, c) ==
    LET at == str_find(entry, c)
    IN  IF IsSome(at)
        THEN <<SubSeq(entry, 1, Unwrap(at)), SubSeq(entry, Unwrap(at) + 2, Len(entry))>>
        ELSE <<entry, <<>>>>

\* the entries in order, empty ones skipped
Properties_iter(props) ==
    LET pieces == SelectSeq(str_split(props, LIST_SEPARATOR), LAMBDA e : e # <<>>)
    IN  [i \in 1..Len(pieces) |-> split_once(pieces[i], FIELD_SEPARATOR)]

\* get: Option<&str>, the value of the first entry with that name
Properties_get(props, name) ==
    LET entries == Properties_iter(props)
        hits == SelectSeq(entries, LAMBDA e : e[1] = name)
    IN  IF hits = <<>> THEN None ELSE Some(hits[1][2])

(***************************************************************************)
(* TimeRange: the external time-range grammar, by its known texts          *)
(***************************************************************************)
TR_ALL == <<"[", ".", ".", "]">>

TR_NOW == <<"[", "n", "o", "w", "(", "-", "2", "s", ")", ".", ".",
            "n", "o", "w", "(", "2", "s", ")", "]">>

TimeRanges == {TR_ALL, TR_NOW}

\* str::parse::<TimeRange>()
TimeRange_parse(text) ==
    IF text \in TimeRanges THEN Ok([range |-> text]) ELSE Err("InvalidTimeRange")

(***************************************************************************)
(* Parameters                                                              *)
(***************************************************************************)
TIME_RANGE_KEY == <<"_", "t", "i", "m", "e">>

Parameters_default == Properties_default

\* impl From<T: Into<Properties>> for Parameters
Parameters_from(text) == Properties_from(text)

\* time_range(): the _time value parsed, or the parser's error; Ok(None)
\* without a value
Parameters_time_range(params) ==
    LET tr == Properties_get(params, TIME_RANGE_KEY)
    IN  IF IsSome(tr)
        THEN LET parsed == TimeRange_parse(Unwrap(tr))
             IN  IF parsed.ok THEN Ok(Some(parsed.val)) ELSE Err(parsed.err)
        ELSE Ok(None)

(***************************************************************************)
(* Selector                                                                *)
(***************************************************************************)
Selector(key_expr, parameters) == [key_expr |-> key_expr, parameters |-> parameters]

\* impl From<(K, P)> for Selector
Selector_from_tuple(key_expr, parameters) == Selector(key_expr, parameters)

\* impl From<KeyExpr> for Selector
Selector_from_KeyExpr(key_selector) == Selector(key_selector, Parameters_default)

Selector_fmt_without_qmark(self) ==
    self.key_expr \o Properties_as_str(self.parameters)

Selector_fmt_always_qmark(self) ==
    self.key_expr \o <<"?">> \o Properties_as_str(self.parameters)

\* impl Display for Selector
Selector_fmt(self) ==
    self.key_expr \o
        (IF ~Properties_is_empty(self.parameters)
         THEN <<"?">> \o Properties_as_str(self.parameters)
         ELSE <<>>)

\* impl TryFrom<String> for Selector
Selector_try_from_String(s) ==
    LET found == str_find(s, "?")
    IN  IF IsSome(found)
        THEN LET qmark_position == Unwrap(found)
                 parameters == SubSeq(s, qmark_position + 2, Len(s))
                 truncated_s == SubSeq(s, 1, qmark_position)
                 key_expr == KeyExpr_try_from(truncated_s)
             IN  IF ~key_expr.ok THEN Err(key_expr.err)
                 ELSE Ok(Selector(key_expr.val, Parameters_from(parameters)))
        ELSE LET key_expr == KeyExpr_try_from(s)
             IN  IF ~key_expr.ok THEN Err(key_expr.err)
                 ELSE Ok(Selector_from_KeyExpr(key_expr.val))

Selector_try_from_str_at_last_qmark(s) ==
    LET found == str_rfind(s, "?")
    IN  IF IsSome(found)
        THEN LET qmark_position == Unwrap(found)
                 params == SubSeq(s, qmark_position + 2, Len(s))
                 key_expr == KeyExpr_try_from(SubSeq(s, 1, qmark_position))
             IN  IF ~key_expr.ok THEN Err(key_expr.err)
                 ELSE Ok(Selector(key_expr.val, Parameters_from(params)))
        ELSE LET key_expr == KeyExpr_try_from(s)
             IN  IF ~key_expr.ok THEN Err(key_expr.err)
                 ELSE Ok(Selector_from_KeyExpr(key_expr.val))

\* impl TryFrom<&str> for Selector
Selector_try_from_str(s) ==
    LET found == str_find(s, "?")
    IN  IF IsSome(found)
        THEN LET qmark_position == Unwrap(found)
                 params == SubSeq(s, qmark_position + 2, Len(s))
                 key_expr == KeyExpr_try_from(SubSeq(s, 1, qmark_position))
             IN  IF ~key_expr.ok THEN Err(key_expr.err)
                 ELSE Ok(Selector(key_expr.val, Parameters_from(params)))
        ELSE LET key_expr == KeyExpr_try_from(s)
             IN  IF ~key_expr.ok THEN Err(key_expr.err)
                 ELSE Ok(Selector_from_KeyExpr(key_expr.val))

\* impl FromStr for Selector: the whole text is converted to a KeyExpr and
\* the parameters are the default ones
Selector_from_str(s) ==
    LET key_expr == KeyExpr_try_from(s)
    IN  IF ~key_expr.ok THEN Err(key_expr.err)
        ELSE Ok(Selector(key_expr.val, Parameters_default))

(***************************************************************************)
(* Inputs of the Selector subsystem                                        *)
(***************************************************************************)
Alphabet == {"k", "/", "?", ";", "="}

\* every text over the alphabet up to the bound
Texts == SeqsUpTo(Alphabet, MaxTextLen)

\* key expressions a Selector is made of directly
KeyExprs == {<<"k">>, <<"k", "/", "a">>, <<"=", ";">>}

NAME_A == <<"a">>

Names == {NAME_A, TIME_RANGE_KEY, <<"k">>}

Entries ==
    { NAME_A,
      NAME_A \o <<"=", "1">>,
      NAME_A \o <<"=", "2">>,
      TIME_RANGE_KEY \o <<"=">> \o TR_ALL,
      TIME_RANGE_KEY \o <<"=">> \o TR_NOW,
      TIME_RANGE_KEY \o <<"=", "?">> }

\* parameter texts: up to MaxEntries entries joined by ';'
ParamTexts == {Join(es, LIST_SEPARATOR) : es \in SeqsUpTo(Entries, MaxEntries)}

\* selector texts: a key expression, and '?' and parameters or nothing
Composed ==
    {k \o q : k \in KeyExprs \cup {<<"/", "k">>},
              q \in {<<>>} \cup {<<"?">> \o p : p \in ParamTexts}}

SelectorInputs == Texts \cup Composed

(***************************************************************************)
(* Actions of the Selector subsystem                                       *)
(***************************************************************************)
InitSelector == AllIdle

\* Selector::try_from(s: &str)
SelectorTryFromStr ==
    /\ via = "none"
    /\ \E s \in SelectorInputs :
        /\ input' = Some(s)
        /\ sel' = Some(Selector_try_from_str(s))
    /\ via' = "str"
    /\ UNCHANGED <<shown, reparsed, asked, got>>
    /\ UNCHANGED notSelVars

\* Selector::try_from(s: String)
SelectorTryFromString ==
    /\ via = "none"
    /\ \E s \in SelectorInputs :
        /\ input' = Some(s)
        /\ sel' = Some(Selector_try_from_String(s))
    /\ via' = "String"
    /\ UNCHANGED <<shown, reparsed, asked, got>>
    /\ UNCHANGED notSelVars

\* s.parse::<Selector>()
SelectorFromStr ==
    /\ via = "none"
    /\ \E s \in SelectorInputs :
        /\ input' = Some(s)
        /\ sel' = Some(Selector_from_str(s))
    /\ via' = "FromStr"
    /\ UNCHANGED <<shown, reparsed, asked, got>>
    /\ UNCHANGED notSelVars

\* Selector::from((key_expr, parameters))
SelectorFromTuple ==
    /\ via = "none"
    /\ \E k \in KeyExprs, p \in ParamTexts :
        sel' = Some(Ok(Selector_from_tuple(k, Parameters_from(p))))
    /\ via' = "tuple"
    /\ UNCHANGED <<input, shown, reparsed, asked, got>>
    /\ UNCHANGED notSelVars

\* selector.to_string()
SelectorDisplay ==
    /\ IsSome(sel) /\ Unwrap(sel).ok
    /\ shown = None
    /\ shown' = Some(Selector_fmt(Unwrap(sel).val))
    /\ UNCHANGED <<input, via, sel, reparsed, asked, got>>
    /\ UNCHANGED notSelVars

\* Selector::try_from(text.as_str()) on the text written by Display
SelectorReparse ==
    /\ IsSome(shown)
    /\ reparsed = None
    /\ reparsed' = Some(Selector_try_from_str(Unwrap(shown)))
    /\ UNCHANGED <<input, via, sel, shown, asked, got>>
    /\ UNCHANGED notSelVars

\* selector.parameters().get(name); the Option is recorded as Ok(option)
ParametersGet ==
    /\ IsSome(sel) /\ Unwrap(sel).ok
    /\ \E name \in Names :
        /\ asked' = Some(name)
        /\ got' = Some(Ok(Properties_get(Unwrap(sel).val.parameters, name)))
    /\ UNCHANGED <<input, via, sel, shown, reparsed>>
    /\ UNCHANGED notSelVars

\* selector.parameters().time_range()
ParametersTimeRange ==
    /\ IsSome(sel) /\ Unwrap(sel).ok
    /\ asked' = Some(TIME_RANGE_KEY)
    /\ got' = Some(Parameters_time_range(Unwrap(sel).val.parameters))
    /\ UNCHANGED <<input, via, sel, shown, reparsed>>
    /\ UNCHANGED notSelVars

NextSelector ==
    \/ SelectorTryFromStr
    \/ SelectorTryFromString
    \/ SelectorFromStr
    \/ SelectorFromTuple
    \/ SelectorDisplay
    \/ SelectorReparse
    \/ ParametersTimeRange
    \/ ParametersGet

SpecSelector == InitSelector /\ [][NextSelector]_vars

(***************************************************************************)
(* Claims about the Selector subsystem                                     *)
(***************************************************************************)
\* the place of the first '?' of a text, or one past its end without one
FirstQmark(s) ==
    CHOOSE i \in 1..(Len(s) + 1) :
        /\ i = Len(s) + 1 \/ s[i] = "?"
        /\ \A j \in 1..(i - 1) : s[j] # "?"

EntrySet(params) == {Properties_iter(params)[i] : i \in 1..Len(Properties_iter(params))}

EntriesNamed(params, name) ==
    {i \in 1..Len(Properties_iter(params)) : Properties_iter(params)[i][1] = name}

DuplicateFree(params) ==
    \A e \in EntrySet(params) : Cardinality(EntriesNamed(params, e[1])) = 1

\* C2 -- Selector round trip: parsing the text Display wrote for a Selector
\* of key expression k and duplicate-free parameters p succeeds and gives k
\* and the same set of (name, value) entries.
C2_SelectorRoundTrip ==
    (IsSome(reparsed) /\ DuplicateFree(Unwrap(sel).val.parameters)) =>
        /\ Unwrap(reparsed).ok
        /\ Unwrap(reparsed).val.key_expr = Unwrap(sel).val.key_expr
        /\ EntrySet(Unwrap(reparsed).val.parameters) = EntrySet(Unwrap(sel).val.parameters)

\* a Selector made of a key expression and two differently named entries
\* was written with a '?' and parsed back
C2_Witness ==
    /\ via = "tuple" /\ IsSome(reparsed)
    /\ DuplicateFree(Unwrap(sel).val.parameters)
    /\ Cardinality(EntrySet(Unwrap(sel).val.parameters)) = 2
    /\ \E i \in 1..Len(Unwrap(shown)) : Unwrap(shown)[i] = "?"
    /\ Unwrap(reparsed) = Unwrap(sel)

\* C3 -- Parsing splits at the first '?': both try_from forms succeed exactly
\* when the text before the first '?' (all of it without one) is a valid
\* key expression; the key expression is then that text and the parameters
\* are the text after the first '?', empty without one; otherwise the
\* result is the InvalidKeyExpr error.
C3_SplitAtFirstQmark ==
    via \in {"str", "String"} =>
        LET s == Unwrap(input)
            r == Unwrap(sel)
            q == FirstQmark(s)
            before == SubSeq(s, 1, q - 1)
            after == SubSeq(s, q + 1, Len(s))
        IN  /\ r.ok <=> KeyExpr_is_valid(before)
            /\ r.ok => /\ r.val.key_expr = before
                       /\ Properties_as_str(r.val.parameters) = after
                       /\ q = Len(s) + 1 => Properties_is_empty(r.val.parameters)
            /\ ~r.ok => r = Err("InvalidKeyExpr")

\* a String with two '?' was parsed: the second one stayed in the parameters
C3_Witness ==
    /\ via = "String" /\ Unwrap(sel).ok
    /\ Cardinality({i \in 1..Len(Unwrap(input)) : Unwrap(input)[i] = "?"}) = 2
    /\ \E i \in 1..Len(Unwrap(sel).val.parameters) : Unwrap(sel).val.parameters[i] = "?"

\* C14 -- Selector canonical string form: the text Display writes for a
\* Selector begins with its key expression, unchanged; with empty parameters
\* the text ends there, with no '?'; with non-empty parameters a '?' follows
\* and then the parameters string, to the end of the text.
C14_CanonicalForm ==
    IsSome(shown) =>
        LET text == Unwrap(shown)
            k == Unwrap(sel).val.key_expr
            p == Unwrap(sel).val.parameters
        IN  /\ Len(text) >= Len(k)
            /\ SubSeq(text, 1, Len(k)) = k
            /\ Properties_is_empty(p) <=> Len(text) = Len(k)
            /\ ~Properties_is_empty(p) =>
                   /\ text[Len(k) + 1] = "?"
                   /\ SubSeq(text, Len(k) + 2, Len(text)) = Properties_as_str(p)

\* a text ending in '?' was parsed to empty parameters, and Display wrote
\* the key expression alone
C14_Witness ==
    /\ via = "str" /\ IsSome(shown)
    /\ Unwrap(input)[Len(Unwrap(input))] = "?"
    /\ Properties_is_empty(Unwrap(sel).val.parameters)
    /\ Unwrap(shown) = Unwrap(sel).val.key_expr
    /\ \A i \in 1..Len(Unwrap(shown)) : Unwrap(shown)[i] # "?"

\* C19 -- The two string parsers agree: what s.parse::<Selector>() gives for
\* a text is what Selector::try_from gives for it: the same error, or the
\* same key expression and the same parameters.
C19_ParsersAgree ==
    via = "FromStr" => Unwrap(sel) = Selector_try_from_str(Unwrap(input))

\* C4 -- Duplicate parameter policy: a keyed accessor (get, time_range)
\* called for a name that has more than one entry fails with a
\* duplicate-parameter error.
C4_DuplicateParameterPolicy ==
    (IsSome(got) /\ Cardinality(EntriesNamed(Unwrap(sel).val.parameters, Unwrap(asked))) > 1) =>
        Unwrap(got) = Err("DuplicateParameter")

(***************************************************************************)
(* Priority and CongestionControl                                          *)
(***************************************************************************)
\* the levels from highest to lowest; the ordinal of a level is its place
\* in this list, counted from 0
PRIORITIES ==
    <<"RealTime", "InteractiveHigh", "InteractiveLow", "DataHigh",
      "Data", "DataLow", "Background">>

Priority == {PRIORITIES[i] : i \in 1..Len(PRIORITIES)}

Priority_default == "Data"

\* impl From<Priority> for u8
Priority_into_u8(priority) == (CHOOSE i \in 1..Len(PRIORITIES) : PRIORITIES[i] = priority) - 1

\* impl TryFrom<u8> for Priority
Priority_try_from(v) ==
    IF v < Len(PRIORITIES) THEN Ok(PRIORITIES[v + 1]) ELSE Err("InvalidPriority")

CongestionControl == {"Drop", "Block"}

CongestionControl_default == "Drop"

(***************************************************************************)
(* QoSType: the wire byte. Bits 0-2 priority ordinal, bit 3 congestion     *)
(* control (1 = Block), bit 4 express, bits 5-7 reserved.                  *)
(***************************************************************************)
P_MASK == 7

D_FLAG == 8

E_FLAG == 16

BYTE == 256

\* (byte & flag) # 0, for a one-bit flag
HasFlag(byte, flag) == (byte \div flag) % 2 = 1

SetFlag(byte, flag, on) ==
    IF on = HasFlag(byte, flag) THEN byte
    ELSE IF on THEN byte + flag ELSE byte - flag

QoSType_new(priority, congestion_control, is_express) ==
    SetFlag(SetFlag(Priority_into_u8(priority), D_FLAG, congestion_control = "Block"),
            E_FLAG, is_express)

QoSType_default == QoSType_new(Priority_default, CongestionControl_default, FALSE)

QoSType_get_priority(inner) == inner % (P_MASK + 1)

QoSType_set_priority(inner, priority) ==
    (inner - (inner % (P_MASK + 1))) + (priority % (P_MASK + 1))

QoSType_get_congestion_control(inner) ==
    IF HasFlag(inner, D_FLAG) THEN "Block" ELSE "Drop"

QoSType_set_congestion_control(inner, congestion_control) ==
    SetFlag(inner, D_FLAG, congestion_control = "Block")

QoSType_is_express(inner) == HasFlag(inner, E_FLAG)

QoSType_set_is_express(inner, is_express) == SetFlag(inner, E_FLAG, is_express)

(***************************************************************************)
(* QoS                                                                     *)
(***************************************************************************)
\* #[derive(Default)]
QoS_default == [inner |-> QoSType_default]

\* impl From<QoSType> for QoS
QoS_from_QoSType(qosType) == [inner |-> qosType]

QoS_priority_unchecked(self) ==
    LET v == QoSType_get_priority(self.inner)
    IN  IF v < Len(PRIORITIES) THEN PRIORITIES[v + 1] ELSE "Invalid"

\* priority(): the level of the ordinal, the default when it has none
QoS_priority(self) ==
    LET p == Priority_try_from(QoSType_get_priority(self.inner))
    IN  IF p.ok THEN p.val ELSE Priority_default

QoS_congestion_control(self) == QoSType_get_congestion_control(self.inner)

QoS_express(self) == QoSType_is_express(self.inner)

QoS_with_priority(self, priority) ==
    [self EXCEPT !.inner = QoSType_set_priority(@, Priority_into_u8(priority))]

QoS_with_congestion_control(self, congestion_control) ==
    [self EXCEPT !.inner = QoSType_set_congestion_control(@, congestion_control)]

QoS_with_express_of_default(self, is_express) ==
    [inner |-> QoSType_set_is_express(QoSType_default, is_express)]

QoS_with_express(self, is_express) ==
    [self EXCEPT !.inner = QoSType_set_is_express(@, is_express)]

(***************************************************************************)
(* Actions of the QoS subsystem                                            *)
(***************************************************************************)
InitQoS == AllIdle

NothingSet == [priority |-> None, congestion_control |-> None, express |-> None]

\* QoS::default()
QoSDefault ==
    /\ qos = None
    /\ qos' = Some(QoS_default)
    /\ qosOrigin' = "default"
    /\ lastSet' = NothingSet
    /\ UNCHANGED wire
    /\ UNCHANGED notQosVars

\* QoS::from(received QoSType): any byte, written as the fields it packs
QoSFromWire ==
    /\ qos = None
    /\ \E p \in 0..P_MASK, c \in CongestionControl, e \in BOOLEAN,
          reserved \in 0..((BYTE \div (2 * E_FLAG)) - 1) :
        /\ wire' = Some([priority |-> p, congestion_control |-> c, express |-> e])
        /\ qos' = Some(QoS_from_QoSType(
                      p + (IF c = "Block" THEN D_FLAG ELSE 0) + (IF e THEN E_FLAG ELSE 0)
                        + reserved * 2 * E_FLAG))
    /\ qosOrigin' = "wire"
    /\ lastSet' = NothingSet
    /\ UNCHANGED notQosVars

\* qos = qos.with_priority(priority)
QoSWithPriority ==
    /\ IsSome(qos)
    /\ \E priority \in Priority :
        /\ qos' = Some(QoS_with_priority(Unwrap(qos), priority))
        /\ lastSet' = [lastSet EXCEPT !.priority = Some(priority)]
    /\ UNCHANGED <<qosOrigin, wire>>
    /\ UNCHANGED notQosVars

\* qos = qos.with_congestion_control(congestion_control)
QoSWithCongestionControl ==
    /\ IsSome(qos)
    /\ \E congestion_control \in CongestionControl :
        /\ qos' = Some(QoS_with_congestion_control(Unwrap(qos), congestion_control))
        /\ lastSet' = [lastSet EXCEPT !.congestion_control = Some(congestion_control)]
    /\ UNCHANGED <<qosOrigin, wire>>
    /\ UNCHANGED notQosVars

\* qos = qos.with_express(is_express)
QoSWithExpress ==
    /\ IsSome(qos)
    /\ \E is_express \in BOOLEAN :
        /\ qos' = Some(QoS_with_express(Unwrap(qos), is_express))
        /\ lastSet' = [lastSet EXCEPT !.express = Some(is_express)]
    /\ UNCHANGED <<qosOrigin, wire>>
    /\ UNCHANGED notQosVars

NextQoS ==
    \/ QoSDefault
    \/ QoSFromWire
    \/ QoSWithPriority
    \/ QoSWithCongestionControl
    \/ QoSWithExpress

SpecQoS == InitQoS /\ [][NextQoS]_vars

(***************************************************************************)
(* Claims about the QoS subsystem                                          *)
(***************************************************************************)
\* the value last given to the setter of a field, or else the given one
LastSetOr(field, otherwise) == IF IsSome(field) THEN Unwrap(field) ELSE otherwise

\* C7 -- QoS defaults and setter independence: after any setters applied to
\* QoS::default(), each getter returns what was last set for its own field,
\* or the default (Data, Drop, false) when that field was never set.
C7_QoSSetterIndependence ==
    qosOrigin = "default" =>
        /\ QoS_priority(Unwrap(qos)) = LastSetOr(lastSet.priority, "Data")
        /\ QoS_congestion_control(Unwrap(qos)) = LastSetOr(lastSet.congestion_control, "Drop")
        /\ QoS_express(Unwrap(qos)) = LastSetOr(lastSet.express, FALSE)

\* all three setters were applied, each away from the default
C7_Witness ==
    /\ qosOrigin = "default"
    /\ lastSet = [priority |-> Some("RealTime"), congestion_control |-> Some("Block"),
                  express |-> Some(TRUE)]
    /\ Unwrap(qos).inner = D_FLAG + E_FLAG

\* C8 -- QoS priority decode fallback: a QoS built from a received byte has
\* the priority of the ordinal packed in bits 0-2, and the default Data for
\* the ordinal 7 that no level has; congestion control and express are the
\* ones packed in bits 3 and 4 whatever the ordinal is.
C8_PriorityDecodeFallback ==
    qosOrigin = "wire" =>
        LET w == Unwrap(wire)
        IN  /\ QoS_priority(Unwrap(qos)) =
                   LastSetOr(lastSet.priority,
                             IF w.priority \in 0..6 THEN PRIORITIES[w.priority + 1] ELSE "Data")
            /\ QoS_congestion_control(Unwrap(qos)) =
                   LastSetOr(lastSet.congestion_control, w.congestion_control)
            /\ QoS_express(Unwrap(qos)) = LastSetOr(lastSet.express, w.express)

\* a received byte with ordinal 7, Block and express, no setter applied
C8_Witness ==
    /\ qosOrigin = "wire" /\ lastSet = NothingSet
    /\ Unwrap(wire) = [priority |-> 7, congestion_control |-> "Block", express |-> TRUE]
    /\ QoS_priority(Unwrap(qos)) = "Data"
    /\ QoS_congestion_control(Unwrap(qos)) = "Block"
    /\ QoS_express(Unwrap(qos))

(***************************************************************************)
(* SampleKind, Encoding, Value, Timestamp                                  *)
(***************************************************************************)
SampleKind == {"Put", "Delete"}

SampleKind_default == "Put"

Encoding_default == "EMPTY"

Encodings == {Encoding_default, "text/plain"}

\* impl From<ZBuf> for Value: the payload with the default encoding
Value_from_ZBuf(payload) == [payload |-> payload, encoding |-> Encoding_default]

\* the reception time with the placeholder id 0x00
new_reception_timestamp(clock) == [time |-> clock, id |-> 0]

(***************************************************************************)
(* SourceInfo                                                              *)
(***************************************************************************)
SourceInfo_empty == [source_id |-> None, source_sn |-> None]

\* impl From<DataInfo> for SourceInfo
SourceInfo_from_DataInfo(data_info) ==
    [source_id |-> data_info.source_id, source_sn |-> data_info.source_sn]

\* impl From<Option<DataInfo>> for SourceInfo
SourceInfo_from_Option_DataInfo(data_info) ==
    IF IsSome(data_info) THEN SourceInfo_from_DataInfo(Unwrap(data_info))
    ELSE SourceInfo_empty

(***************************************************************************)
(* Sample                                                                  *)
(***************************************************************************)
\* Sample::new(key_expr, value)
Sample_new(key_expr, value) ==
    [key_expr |-> key_expr,
     value |-> value,
     kind |-> SampleKind_default,
     timestamp |-> None,
     qos |-> QoS_default,
     source_info |-> SourceInfo_empty,
     attachment |-> None]

Sample_with_info_keeps_encoding(key_expr, payload, data_info) ==
    LET value == Value_from_ZBuf(payload)
    IN  IF IsSome(data_info)
        THEN [key_expr |-> key_expr,
              value |-> value,
              kind |-> Unwrap(data_info).kind,
              timestamp |-> Unwrap(data_info).timestamp,
              qos |-> Unwrap(data_info).qos,
              source_info |-> SourceInfo_from_DataInfo(Unwrap(data_info)),
              attachment |-> None]
        ELSE Sample_new(key_expr, value)

\* Sample::with_info(key_expr, payload, data_info)
Sample_with_info(key_expr, payload, data_info) ==
    LET value == Value_from_ZBuf(payload)
    IN  IF IsSome(data_info)
        THEN LET info == Unwrap(data_info)
                 value2 == IF IsSome(info.encoding)
                           THEN [value EXCEPT !.encoding = Unwrap(info.encoding)]
                           ELSE value
             IN  [key_expr |-> key_expr,
                  value |-> value2,
                  kind |-> info.kind,
                  timestamp |-> info.timestamp,
                  qos |-> info.qos,
                  source_info |-> SourceInfo_from_DataInfo(info),
                  attachment |-> None]
        ELSE [key_expr |-> key_expr,
              value |-> value,
              kind |-> SampleKind_default,
              timestamp |-> None,
              qos |-> QoS_default,
              source_info |-> SourceInfo_empty,
              attachment |-> None]

\* get_timestamp(&self) -> Option<&Timestamp>
Sample_get_timestamp(self) == self.timestamp

\* with_timestamp(self, timestamp) -> Self
Sample_with_timestamp(self, timestamp) == [self EXCEPT !.timestamp = Some(timestamp)]

\* with_source_info(self, source_info) -> Self
Sample_with_source_info(self, source_info) == [self EXCEPT !.source_info = source_info]

Sample_with_attachment_of_new_sample(self, attachment) ==
    [Sample_new(self.key_expr, self.value) EXCEPT !.attachment = Some(attachment)]

\* with_attachment(self, attachment) -> Self
Sample_with_attachment(self, attachment) == [self EXCEPT !.attachment = Some(attachment)]

Sample_ensure_timestamp_stamps_again(self, clock) ==
    LET timestamp == new_reception_timestamp(clock)
    IN  [self |-> [self EXCEPT !.timestamp = Some(timestamp)], ret |-> timestamp]

\* ensure_timestamp(&mut self) -> &Timestamp: the Sample afterwards and
\* the timestamp returned
Sample_ensure_timestamp(self, clock) ==
    IF IsSome(self.timestamp)
    THEN [self |-> self, ret |-> Unwrap(self.timestamp)]
    ELSE LET timestamp == new_reception_timestamp(clock)
             stamped == [self EXCEPT !.timestamp = Some(timestamp)]
         IN  [self |-> stamped, ret |-> Unwrap(stamped.timestamp)]

(***************************************************************************)
(* Inputs of the Sample subsystem                                          *)
(***************************************************************************)
SampleKeyExprs == {<<"k">>, <<"k", "/", "a">>}

Payloads == {<<>>, <<<<1, 2>>>>}

\* timestamps made by a publisher: never the placeholder id
PublisherTimestamps == {[time |-> 1, id |-> 7]}

\* source infos given to with_source_info
SourceInfos == {SourceInfo_empty, [source_id |-> Some(9), source_sn |-> Some(4)]}

\* attachments given to with_attachment
SampleAttachments == {Attachment_new, Attachment_from_iter(<<<<<<97>>, <<49>>>>>>)}

DataInfos ==
    [kind : SampleKind,
     encoding : {None, Some("text/plain")},
     timestamp : {None} \cup {Some(t) : t \in PublisherTimestamps},
     source_id : {None, Some(7)},
     source_sn : {None, Some(3)},
     qos : {QoS_default, QoS_from_QoSType(D_FLAG + 1)}]

(***************************************************************************)
(* Actions of the Sample subsystem                                         *)
(***************************************************************************)
InitSample == AllIdle

\* Sample::new(key_expr, payload)
SampleNew ==
    /\ sample = None
    /\ \E k \in SampleKeyExprs, payload \in Payloads :
        /\ sample' = Some(Sample_new(k, Value_from_ZBuf(payload)))
        /\ ctor' = Some([key_expr |-> k, payload |-> payload, data_info |-> None])
    /\ lastOp' = "new"
    /\ UNCHANGED <<now, ret, given>>
    /\ UNCHANGED notSampleVars

\* Sample::with_info(key_expr, payload, data_info)
SampleWithInfo ==
    /\ sample = None
    /\ \E k \in SampleKeyExprs, payload \in Payloads,
          data_info \in {None} \cup {Some(d) : d \in DataInfos} :
        /\ sample' = Some(Sample_with_info(k, payload, data_info))
        /\ ctor' = Some([key_expr |-> k, payload |-> payload, data_info |-> data_info])
    /\ lastOp' = "with_info"
    /\ UNCHANGED <<now, ret, given>>
    /\ UNCHANGED notSampleVars

\* sample.get_timestamp()
SampleGetTimestamp ==
    /\ IsSome(sample)
    /\ ret' = Some(Sample_get_timestamp(Unwrap(sample)))
    /\ lastOp' = "get_timestamp"
    /\ UNCHANGED <<sample, ctor, now, given>>
    /\ UNCHANGED notSampleVars

\* sample = sample.with_timestamp(timestamp)
SampleWithTimestamp ==
    /\ IsSome(sample)
    /\ \E timestamp \in PublisherTimestamps :
        /\ sample' = Some(Sample_with_timestamp(Unwrap(sample), timestamp))
        /\ given' = Some(timestamp)
    /\ ret' = None
    /\ lastOp' = "with_timestamp"
    /\ UNCHANGED <<ctor, now>>
    /\ UNCHANGED notSampleVars

\* sample = sample.with_source_info(source_info)
SampleWithSourceInfo ==
    /\ IsSome(sample)
    /\ \E source_info \in SourceInfos :
        /\ sample' = Some(Sample_with_source_info(Unwrap(sample), source_info))
        /\ given' = Some(source_info)
    /\ ret' = None
    /\ lastOp' = "with_source_info"
    /\ UNCHANGED <<ctor, now>>
    /\ UNCHANGED notSampleVars

\* sample = sample.with_attachment(attachment)
SampleWithAttachment ==
    /\ IsSome(sample)
    /\ \E attachment \in SampleAttachments :
        /\ sample' = Some(Sample_with_attachment(Unwrap(sample), attachment))
        /\ given' = Some(attachment)
    /\ ret' = None
    /\ lastOp' = "with_attachment"
    /\ UNCHANGED <<ctor, now>>
    /\ UNCHANGED notSampleVars

\* sample.ensure_timestamp()
SampleEnsureTimestamp ==
    /\ IsSome(sample)
    /\ LET r == Sample_ensure_timestamp(Unwrap(sample), now)
       IN  /\ sample' = Some(r.self)
           /\ ret' = Some(r.ret)
    /\ lastOp' = "ensure_timestamp"
    /\ UNCHANGED <<ctor, now, given>>
    /\ UNCHANGED notSampleVars

\* time passes
Tick ==
    /\ now < MaxClock
    /\ now' = now + 1
    /\ lastOp' = "tick"
    /\ UNCHANGED <<sample, ctor, ret, given>>
    /\ UNCHANGED notSampleVars

NextSample ==
    \/ SampleNew
    \/ SampleWithInfo
    \/ SampleGetTimestamp
    \/ SampleWithTimestamp
    \/ SampleWithSourceInfo
    \/ SampleWithAttachment
    \/ SampleEnsureTimestamp
    \/ Tick

SpecSample == InitSample /\ [][NextSample]_vars

(***************************************************************************)
(* Claims about the Sample subsystem                                       *)
(***************************************************************************)
\* C9 -- Sample timestamp lifecycle: no step takes a timestamp away; a call
\* of ensure_timestamp leaves a Sample that has a timestamp as it is and
\* returns that timestamp, gives a Sample without one the reception
\* timestamp of the call time and returns it, and changes no other field;
\* get_timestamp returns the timestamp the Sample has and changes nothing.
C9_TimestampLifecycle ==
    [][ /\ (IsSome(sample) /\ IsSome(Unwrap(sample).timestamp)) =>
               IsSome(Unwrap(sample').timestamp)
        /\ lastOp' = "ensure_timestamp" =>
               LET old == Unwrap(sample)
                   new == Unwrap(sample')
               IN  /\ IsSome(new.timestamp)
                   /\ ret' = Some(Unwrap(new.timestamp))
                   /\ IsSome(old.timestamp) => new = old
                   /\ ~IsSome(old.timestamp) =>
                          new.timestamp = Some([time |-> now, id |-> 0])
                   /\ [new EXCEPT !.timestamp = old.timestamp] = old
        /\ lastOp' = "get_timestamp" =>
               /\ ret' = Some(Unwrap(sample).timestamp)
               /\ sample' = sample
      ]_vars

\* ensure_timestamp was just called at a later time than the one of the
\* reception timestamp the Sample has: it returned the one stored before
C9_Witness ==
    /\ lastOp = "ensure_timestamp"
    /\ Unwrap(sample).timestamp = Some([time |-> 0, id |-> 0])
    /\ now = 2
    /\ ret = Some([time |-> 0, id |-> 0])

\* C10 -- Sample::with_info: without a DataInfo the Sample has the producer
\* defaults; with one, its kind, timestamp, qos, source_id and source_sn are
\* the DataInfo's and its encoding is the DataInfo's when that has one, the
\* default otherwise; the key expression and the payload are the ones given
\* and there is no attachment.
C10_WithInfoMerge ==
    lastOp = "with_info" =>
        LET c == Unwrap(ctor)
            s == Unwrap(sample)
        IN  /\ s.key_expr = c.key_expr
            /\ s.value.payload = c.payload
            /\ s.attachment = None
            /\ IF c.data_info = None
               THEN /\ s.kind = "Put"
                    /\ s.timestamp = None
                    /\ s.qos = QoS_default
                    /\ s.source_info = [source_id |-> None, source_sn |-> None]
                    /\ s.value.encoding = "EMPTY"
               ELSE LET d == Unwrap(c.data_info)
                    IN  /\ s.kind = d.kind
                        /\ s.timestamp = d.timestamp
                        /\ s.qos = d.qos
                        /\ s.source_info.source_id = d.source_id
                        /\ s.source_info.source_sn = d.source_sn
                        /\ s.value.encoding =
                               (IF d.encoding = None THEN "EMPTY" ELSE Unwrap(d.encoding))

\* a Sample made from a DataInfo that sets every optional field
C10_Witness ==
    /\ lastOp = "with_info"
    /\ IsSome(Unwrap(ctor).data_info)
    /\ Unwrap(sample).kind = "Delete"
    /\ Unwrap(sample).value = [payload |-> <<<<1, 2>>>>, encoding |-> "text/plain"]
    /\ Unwrap(sample).timestamp = Some([time |-> 1, id |-> 7])
    /\ Unwrap(sample).source_info = [source_id |-> Some(7), source_sn |-> Some(3)]
    /\ Unwrap(sample).qos = [inner |-> D_FLAG + 1]

\* C15 -- Copy-with-change operations touch one field each: with_timestamp(t)
\* leaves timestamp = Some(t), with_source_info(s) leaves source_info = s and
\* with_attachment(a) leaves attachment = Some(a); every other field of the
\* Sample is the one it had before the call, whatever calls went before.
C15_CopyWithChangeFrame ==
    [][ LET old == Unwrap(sample)
            new == Unwrap(sample')
            arg == Unwrap(given')
            Kept(fields) == \A f \in fields : new[f] = old[f]
        IN  /\ lastOp' = "with_timestamp" =>
                   /\ new.timestamp = Some(arg)
                   /\ Kept({"key_expr", "value", "kind", "qos", "source_info", "attachment"})
            /\ lastOp' = "with_source_info" =>
                   /\ new.source_info = arg
                   /\ Kept({"key_expr", "value", "kind", "qos", "timestamp", "attachment"})
            /\ lastOp' = "with_attachment" =>
                   /\ new.attachment = Some(arg)
                   /\ Kept({"key_expr", "value", "kind", "qos", "timestamp", "source_info"})
      ]_vars

\* with_attachment was just called on a Delete Sample that calls of
\* with_timestamp and with_source_info had changed before: both changes and
\* the fields of the construction are still there
C15_Witness ==
    /\ lastOp = "with_attachment"
    /\ IsSome(Unwrap(ctor).data_info)
    /\ Unwrap(Unwrap(ctor).data_info).timestamp = None
    /\ Unwrap(sample).kind = "Delete"
    /\ Unwrap(sample).value.encoding = "text/plain"
    /\ Unwrap(sample).qos = [inner |-> D_FLAG + 1]
    /\ Unwrap(sample).timestamp = Some([time |-> 1, id |-> 7])
    /\ Unwrap(sample).source_info = [source_id |-> Some(9), source_sn |-> Some(4)]
    /\ Unwrap(sample).attachment = Some(Attachment_from_iter(<<<<<<97>>, <<49>>>>>>))
    /\ given = Unwrap(sample).attachment

(***************************************************************************)
(* Shared storage: a ZSlice is a view <<buf, start, end>> of the bytes     *)
(* start+1..end of the reference-counted storage store[buf]; a ZBuf that   *)
(* shares storage is a sequence of such views, none of them empty          *)
(***************************************************************************)
ZSlice(buf, start, end) == <<buf, start, end>>

ZSlice_as_slice(storage, zslice) == SubSeq(storage[zslice[1]], zslice[2] + 1, zslice[3])

\* the byte slices a buffer of views stands for
ZBuf_slices(storage, zbuf) == [i \in DOMAIN zbuf |-> ZSlice_as_slice(storage, zbuf[i])]

\* Vec<u8> -> ZBuf: the vector becomes storage number buf, viewed whole
ZBuf_from_storage(storage, buf) ==
    IF storage[buf] = <<>> THEN ZBuf_empty
    ELSE ZBuf_push_zslice(ZBuf_empty, ZSlice(buf, 0, Len(storage[buf])))

\* zbuf.writer(): the storage the writer appends to is the one of the last
\* slice when that slice ends where its storage ends, a new one otherwise
ZBuf_writer(storage, zbuf) ==
    LET last == IF zbuf = <<>> THEN None ELSE Some(zbuf[Len(zbuf)])
        reuse == IsSome(last) /\ Unwrap(last)[3] = Len(storage[Unwrap(last)[1]])
    IN  IF reuse
        THEN [storage |-> storage, inner |-> zbuf, cache |-> Unwrap(last)[1]]
        ELSE [storage |-> Append(storage, <<>>), inner |-> zbuf, cache |-> Len(storage) + 1]

\* writer.write_exact(bytes): the bytes go behind the end of the writer's
\* storage; the last slice grows when it is the view that ended there, a new
\* view of the written bytes is pushed otherwise
ZBufWriter_write_exact(writer, bytes) ==
    LET cache == writer.cache
        prev_cache_len == Len(writer.storage[cache])
        cache_len == prev_cache_len + Len(bytes)
        zbuf == writer.inner
        grows == /\ zbuf # <<>>
                 /\ zbuf[Len(zbuf)][1] = cache
                 /\ zbuf[Len(zbuf)][3] = prev_cache_len
    IN  [storage |-> [writer.storage EXCEPT ![cache] = @ \o bytes],
         inner |-> IF grows
                   THEN [zbuf EXCEPT ![Len(zbuf)] = ZSlice(cache, @[2], cache_len)]
                   ELSE Append(zbuf, ZSlice(cache, prev_cache_len, cache_len)),
         cache |-> cache]

(***************************************************************************)
(* Attachment, its storage shared with other holders                       *)
(***************************************************************************)
\* the Attachment as the byte slices it views
Attachment_resolve(storage, self) == [inner |-> ZBuf_slices(storage, self.inner)]

\* #[derive(Clone)]: the same views of the same storage
Attachment_clone(self) == self

\* the pair is written into the storage of the last view, behind the end of
\* that view, over what the storage holds there
Attachment__insert_over_shared_storage(storage, self, key, value) ==
    LET bytes == Zenoh080_write_bytes(key) \o Zenoh080_write_bytes(value)
        zbuf == self.inner
    IN  IF zbuf = <<>>
        THEN [storage |-> Append(storage, bytes),
              self |-> [inner |-> <<ZSlice(Len(storage) + 1, 0, Len(bytes))>>]]
        ELSE LET last == zbuf[Len(zbuf)]
                 old == storage[last[1]]
                 end == last[3] + Len(bytes)
             IN  [storage |-> [storage EXCEPT ![last[1]] =
                                  SubSeq(old, 1, last[3]) \o bytes \o SubSeq(old, end + 1, Len(old))],
                  self |-> [inner |-> [zbuf EXCEPT ![Len(zbuf)] = ZSlice(last[1], last[2], end)]]]

\* _insert: the key, then the value, through a writer on self.inner
Attachment__insert(storage, self, key, value) ==
    LET writer == ZBuf_writer(storage, self.inner)
        wrote_key == ZBufWriter_write_exact(writer, Zenoh080_write_bytes(key))
        wrote_value == ZBufWriter_write_exact(wrote_key, Zenoh080_write_bytes(value))
    IN  [storage |-> wrote_value.storage, self |-> [inner |-> wrote_value.inner]]

\* len: iter().count()
RECURSIVE Attachment_len_loop(_, _, _)
Attachment_len_loop(buf, pos, count) ==
    LET r == AttachmentIterator_next(buf, pos)
    IN  IF r.some THEN Attachment_len_loop(buf, r.pos, count + 1) ELSE count

Attachment_len(self) ==
    Attachment_len_loop(ZBuf_reader(self.inner), Attachment_into_iter(self), 0)

\* whether the buffer holds no bytes
Attachment_is_empty_of_bytes(self) == ZBuf_reader(self.inner) = <<>>

Attachment_is_empty(self) == Attachment_len(self) = 0

\* the value of the last pair with that key
RECURSIVE Attachment__get_last_loop(_, _, _, _)
Attachment__get_last_loop(buf, pos, key, found) ==
    LET r == AttachmentIterator_next(buf, pos)
    IN  IF ~r.some THEN found
        ELSE Attachment__get_last_loop(buf, r.pos, key,
                 IF r.item[1] = key THEN Some(r.item[2]) ELSE found)

Attachment__get_last(self, key) ==
    Attachment__get_last_loop(ZBuf_reader(self.inner), Attachment_into_iter(self), key, None)

\* _get: iter().find_map(|(k, v)| (k == key).then_some(v))
RECURSIVE Attachment__get_loop(_, _, _)
Attachment__get_loop(buf, pos, key) ==
    LET r == AttachmentIterator_next(buf, pos)
    IN  IF ~r.some THEN None
        ELSE IF r.item[1] = key THEN Some(r.item[2])
        ELSE Attachment__get_loop(buf, r.pos, key)

Attachment__get(self, key) ==
    Attachment__get_loop(ZBuf_reader(self.inner), Attachment_into_iter(self), key)

Attachment_get(self, key) == Attachment__get(self, key)

(***************************************************************************)
(* Actions on Attachments that share storage                               *)
(***************************************************************************)
Holders == {"X", "Y"}

FirstHolder == "X"

\* short pairs: an empty pair, its key with another value, another key
SharedPairs ==
    { <<<<>>, <<>>>>,
      <<<<>>, <<49>>>>,
      <<<<97>>, <<>>>> }

\* a key of one pair, of several pairs, of no pair
AskedKeys == {<<>>, <<97>>, <<255>>}

ShortTails == {t \in TruncatedTails : Len(t) <= MaxTailLen}

\* the byte stream holder h reads
HolderStream(h) == ZBuf_reader(Attachment_resolve(store, Unwrap(holders[h])).inner)

\* the pairs an iteration of holder h yields
HolderPairs(h) == Attachment_pairs(Attachment_resolve(store, Unwrap(holders[h])))

InitHolders == AllIdle

\* let X = Attachment::new(): the first Attachment; every other holder
\* starts as a clone
HolderNew ==
    /\ \A g \in Holders : holders[g] = None
    /\ holders' = [holders EXCEPT ![FirstHolder] = Some(Attachment_new)]
    /\ actor' = Some(FirstHolder)
    /\ call' = Some([op |-> "new", arg |-> <<>>])
    /\ result' = None
    /\ UNCHANGED <<store, seen>>
    /\ UNCHANGED notHolderVars

\* X is the first Attachment, received from the network: complete pairs,
\* then possibly a field cut short
HolderReceive ==
    /\ \A g \in Holders : holders[g] = None
    /\ \E ps \in SeqsUpTo(SharedPairs, MaxWirePairs), tail \in ShortTails \cup {<<>>} :
        LET stream == AttachmentBuilder_from_iter(ps) \o tail
            received == <<stream>>
        IN  /\ Len(stream) <= MaxStream
            /\ store' = received
            /\ holders' = [holders EXCEPT ![FirstHolder] =
                   Some(Attachment_from_AttachmentType(ZBuf_from_storage(received, 1)))]
    /\ actor' = Some(FirstHolder)
    /\ call' = Some([op |-> "receive", arg |-> <<>>])
    /\ result' = None
    /\ UNCHANGED seen
    /\ UNCHANGED notHolderVars

\* let h = g.clone()
HolderClone ==
    /\ \E g \in Holders, h \in Holders :
        /\ IsSome(holders[g])
        /\ holders[h] = None
        /\ holders' = [holders EXCEPT ![h] = Some(Attachment_clone(Unwrap(holders[g])))]
        /\ actor' = Some(h)
        /\ call' = Some([op |-> "clone", arg |-> g])
    /\ result' = None
    /\ UNCHANGED <<store, seen>>
    /\ UNCHANGED notHolderVars

\* h.insert(key, value)
HolderInsert ==
    /\ \E h \in Holders, p \in SharedPairs :
        /\ IsSome(holders[h])
        /\ Len(HolderStream(h)) + Len(AttachmentBuilder_from_iter(<<p>>)) <= MaxStream
        /\ LET r == Attachment__insert(store, Unwrap(holders[h]), p[1], p[2])
           IN  /\ store' = r.storage
               /\ holders' = [holders EXCEPT ![h] = Some(r.self)]
        /\ seen' = [seen EXCEPT ![h] = None]
        /\ actor' = Some(h)
        /\ call' = Some([op |-> "insert", arg |-> p])
    /\ result' = None
    /\ UNCHANGED notHolderVars

\* h.extend(g.clone()): g keeps its Attachment
HolderExtend ==
    /\ \E h \in Holders, g \in Holders :
        /\ IsSome(holders[h])
        /\ IsSome(holders[g])
        /\ Len(HolderStream(h)) + Len(HolderStream(g)) <= MaxStream
        /\ holders' = [holders EXCEPT ![h] =
               Some(Attachment__extend(Unwrap(holders[h]), Attachment_clone(Unwrap(holders[g]))))]
        /\ seen' = [seen EXCEPT ![h] = None]
        /\ actor' = Some(h)
        /\ call' = Some([op |-> "extend", arg |-> g])
    /\ result' = None
    /\ UNCHANGED store
    /\ UNCHANGED notHolderVars

\* h.iter().collect()
HolderIter ==
    /\ \E h \in Holders :
        /\ IsSome(holders[h])
        /\ actor' = Some(h)
        /\ result' = Some(Attachment_pairs(Attachment_resolve(store, Unwrap(holders[h]))))
        /\ seen' = [seen EXCEPT ![h] = result']
    /\ call' = Some([op |-> "iter", arg |-> <<>>])
    /\ UNCHANGED <<store, holders>>
    /\ UNCHANGED notHolderVars

\* h.len()
HolderLen ==
    /\ \E h \in Holders :
        /\ IsSome(holders[h])
        /\ actor' = Some(h)
        /\ result' = Some(Attachment_len(Attachment_resolve(store, Unwrap(holders[h]))))
    /\ call' = Some([op |-> "len", arg |-> <<>>])
    /\ UNCHANGED <<store, holders, seen>>
    /\ UNCHANGED notHolderVars

\* h.is_empty()
HolderIsEmpty ==
    /\ \E h \in Holders :
        /\ IsSome(holders[h])
        /\ actor' = Some(h)
        /\ result' = Some(Attachment_is_empty(Attachment_resolve(store, Unwrap(holders[h]))))
    /\ call' = Some([op |-> "is_empty", arg |-> <<>>])
    /\ UNCHANGED <<store, holders, seen>>
    /\ UNCHANGED notHolderVars

\* h.get(key)
HolderGet ==
    /\ \E h \in Holders, key \in AskedKeys :
        /\ IsSome(holders[h])
        /\ actor' = Some(h)
        /\ result' = Some(Attachment_get(Attachment_resolve(store, Unwrap(holders[h])), key))
        /\ call' = Some([op |-> "get", arg |-> key])
    /\ UNCHANGED <<store, holders, seen>>
    /\ UNCHANGED notHolderVars

\* holders that clone, insert and extend
NextHolders ==
    \/ HolderNew
    \/ HolderReceive
    \/ HolderClone
    \/ HolderInsert
    \/ HolderExtend

SpecHolders == InitHolders /\ [][NextHolders]_vars

\* the read operations of an Attachment, between inserts
InitReads == AllIdle

NextReads ==
    \/ HolderNew
    \/ HolderReceive
    \/ HolderInsert
    \/ HolderIter
    \/ HolderLen
    \/ HolderIsEmpty
    \/ HolderGet

SpecReads == InitReads /\ [][NextReads]_vars

(***************************************************************************)
(* Claims about Attachments read and shared                                *)
(***************************************************************************)
\* the last step was operation op
Called(op) == IsSome(call) /\ Unwrap(call).op = op

\* the positions of the pairs with that key
Matches(pairs, key) == {i \in 1..Len(pairs) : pairs[i][1] = key}

First(positions) == CHOOSE i \in positions : \A j \in positions : i <= j

\* the pairs an iteration of holder h yields after the step
HolderPairsAfter(h) == Attachment_pairs(Attachment_resolve(store', Unwrap(holders'[h])))

\* the stream ends where a pair ends
WellFormed(h) == HolderStream(h) = AttachmentBuilder_from_iter(HolderPairs(h))

\* C11 -- Attachment::get(key) returns the value of the first pair, in
\* iteration order, whose key is exactly the given bytes, and nothing when no
\* pair has that key; the value of a later pair with the key is not returned.
C11_GetFirstMatch ==
    Called("get") =>
        LET pairs == HolderPairs(Unwrap(actor))
            hits == Matches(pairs, Unwrap(call).arg)
        IN  Unwrap(result) =
                IF hits = {} THEN None ELSE Some(pairs[First(hits)][2])

\* get of a key that two pairs carry with different values returned the
\* value of the first
C11_Witness ==
    /\ Called("get")
    /\ Unwrap(call).arg = <<>>
    /\ HolderPairs(Unwrap(actor)) = << <<<<>>, <<49>>>>, <<<<>>, <<>>>> >>
    /\ Unwrap(result) = Some(<<49>>)

TimeRange_fmt(tr) == tr.range

\* <<name, value>> -> "name=value", and "name" for an empty value
Properties_fmt_entry(entry) ==
    IF entry[2] = <<>> THEN entry[1] ELSE entry[1] \o <<FIELD_SEPARATOR>> \o entry[2]

\* FromIterator: the entries written one after the other
Properties_from_iter(entries) ==
    Join([i \in 1..Len(entries) |-> Properties_fmt_entry(entries[i])], LIST_SEPARATOR)

\* the entry is written behind the entries there are
Properties_insert_behind(props, k, v) ==
    Properties_from_iter(Append(Properties_iter(props), <<k, v>>))

\* insert: the entries of another name, then the one written
Properties_insert(props, k, v) ==
    Properties_from_iter(
        Append(SelectSeq(Properties_iter(props), LAMBDA e : e[1] # k), <<k, v>>))

\* remove: the entries of another name
Properties_remove(props, k) ==
    Properties_from_iter(SelectSeq(Properties_iter(props), LAMBDA e : e[1] # k))

\* extend_from_iter: insert, one entry after the other
RECURSIVE Properties_extend_from_iter(_, _)
Properties_extend_from_iter(props, iter) ==
    IF iter = <<>> THEN props
    ELSE Properties_extend_from_iter(
             Properties_insert(props, Head(iter)[1], Head(iter)[2]), Tail(iter))

\* None leaves the Parameters as they are
Parameters_set_time_range_keeping(params, time_range) ==
    IF IsSome(time_range)
    THEN Properties_insert(params, TIME_RANGE_KEY, TimeRange_fmt(Unwrap(time_range)))
    ELSE params

\* set_time_range: Some(tr) inserts its text, None removes the entry
Parameters_set_time_range(params, time_range) ==
    IF IsSome(time_range)
    THEN Properties_insert(params, TIME_RANGE_KEY, TimeRange_fmt(Unwrap(time_range)))
    ELSE Properties_remove(params, TIME_RANGE_KEY)

(***************************************************************************)
(* Actions on Parameters under keyed writes                                *)
(***************************************************************************)
WrittenNames == {NAME_A, TIME_RANGE_KEY}

WrittenValues == {<<>>, <<"1">>}

WrittenEntries == {<<n, v>> : n \in WrittenNames, v \in WrittenValues}

\* iterators of two entries, of two names or of one name twice
ExtendIters ==
    {<<e1, e2>> : e1 \in WrittenEntries,
                  e2 \in {<<NAME_A, <<"1">>>>, <<TIME_RANGE_KEY, <<>>>>}}

TimeRangeValues == {TimeRange_parse(t).val : t \in TimeRanges}

InitParameters == AllIdle

\* let mut parameters = Parameters::from(text)
OwnedFrom ==
    /\ ownedParams = None
    /\ \E text \in ParamTexts :
        /\ ownedParams' = Some(Parameters_from(text))
        /\ startText' = Some(text)
    /\ latest' = [n \in WrittenNames |-> None]
    /\ UNCHANGED <<written, retrieved>>
    /\ UNCHANGED notParamVars

\* parameters.insert(k, v)
OwnedInsert ==
    /\ IsSome(ownedParams)
    /\ \E k \in WrittenNames, v \in WrittenValues :
        /\ ownedParams' = Some(Properties_insert(Unwrap(ownedParams), k, v))
        /\ latest' = [latest EXCEPT ![k] = Some(Some(v))]
        /\ written' = Some([op |-> "insert", arg |-> None])
    /\ retrieved' = None
    /\ UNCHANGED startText
    /\ UNCHANGED notParamVars

\* parameters.set_time_range(time_range)
OwnedSetTimeRange ==
    /\ IsSome(ownedParams)
    /\ \E time_range \in {None} \cup {Some(tr) : tr \in TimeRangeValues} :
        /\ ownedParams' = Some(Parameters_set_time_range(Unwrap(ownedParams), time_range))
        /\ latest' = [latest EXCEPT ![TIME_RANGE_KEY] =
               IF IsSome(time_range) THEN Some(Some(TimeRange_fmt(Unwrap(time_range))))
               ELSE Some(None)]
        /\ written' = Some([op |-> "set_time_range", arg |-> time_range])
    /\ retrieved' = None
    /\ UNCHANGED startText
    /\ UNCHANGED notParamVars

\* what the entries written one after the other leave as last written
RECURSIVE LatestAfter(_, _)
LatestAfter(log, iter) ==
    IF iter = <<>> THEN log
    ELSE LatestAfter([log EXCEPT ![Head(iter)[1]] = Some(Some(Head(iter)[2]))], Tail(iter))

\* parameters.extend_from_iter(iter)
OwnedExtendFromIter ==
    /\ IsSome(ownedParams)
    /\ \E iter \in ExtendIters :
        /\ ownedParams' = Some(Properties_extend_from_iter(Unwrap(ownedParams), iter))
        /\ latest' = LatestAfter(latest, iter)
        /\ written' = Some([op |-> "extend_from_iter", arg |-> None])
    /\ retrieved' = None
    /\ UNCHANGED startText
    /\ UNCHANGED notParamVars

\* parameters.get(name)
OwnedGet ==
    /\ IsSome(ownedParams)
    /\ \E name \in WrittenNames :
        retrieved' = Some([op |-> "get", name |-> name,
                           value |-> Properties_get(Unwrap(ownedParams), name)])
    /\ UNCHANGED <<ownedParams, startText, latest, written>>
    /\ UNCHANGED notParamVars

\* parameters.time_range()
OwnedTimeRange ==
    /\ IsSome(ownedParams)
    /\ retrieved' = Some([op |-> "time_range", name |-> TIME_RANGE_KEY,
                          value |-> Parameters_time_range(Unwrap(ownedParams))])
    /\ UNCHANGED <<ownedParams, startText, latest, written>>
    /\ UNCHANGED notParamVars

NextParameters ==
    \/ OwnedFrom
    \/ OwnedInsert
    \/ OwnedSetTimeRange
    \/ OwnedExtendFromIter
    \/ OwnedGet
    \/ OwnedTimeRange

SpecParameters == InitParameters /\ [][NextParameters]_vars

(***************************************************************************)
(* Claims about Parameters under keyed writes                              *)
(***************************************************************************)
\* the entries of that name, in order
NamedEntries(params, name) == SelectSeq(Properties_iter(params), LAMBDA e : e[1] = name)

\* the entries the history tells for a name: the one last written, none
\* after a removal, those of the starting text when the name was not written
ExpectedEntries(name) ==
    IF latest[name] = None THEN NamedEntries(Unwrap(startText), name)
    ELSE IF Unwrap(latest[name]) = None THEN <<>>
    ELSE << <<name, Unwrap(Unwrap(latest[name]))>> >>

StructField(name, offset, size) == [name |-> name, offset |-> offset, size |-> size]

StructLayout(name, size, alignment, fields) ==
    [name |-> name, size |-> size, alignment |-> alignment,
     fields_count |-> Len(fields), fields |-> fields]

Compatibility(major, minor, patch, stable, commit, structs) ==
    [major |-> major, minor |-> minor, patch |-> patch, stable |-> stable,
     commit |-> commit, structs |-> structs]

\* for (a, b) in a.structs.iter().zip(b.structs.iter()): false at the first
\* position where the two differ, true when either list ends
RECURSIVE Compatibility_structs_loop(_, _, _)
Compatibility_structs_loop(a_structs, b_structs, i) ==
    IF i > Len(a_structs) \/ i > Len(b_structs) THEN TRUE
    ELSE IF a_structs[i] # b_structs[i] THEN FALSE
    ELSE Compatibility_structs_loop(a_structs, b_structs, i + 1)

Compatibility_are_compatible_without_structs(a, b) ==
    IF a.stable /\ b.stable
    THEN ~(a.major # b.major \/ a.minor # b.minor \/ a.patch # b.patch)
    ELSE a = b

\* Compatibility::are_compatible(a, b)
Compatibility_are_compatible(a, b) ==
    LET layouts == IF Len(a.structs) # Len(b.structs) THEN FALSE
                   ELSE Compatibility_structs_loop(a.structs, b.structs, 1)
    IN  IF a.stable /\ b.stable
        THEN IF a.major # b.major \/ a.minor # b.minor \/ a.patch # b.patch
             THEN FALSE
             ELSE layouts
        ELSE IF a # b THEN FALSE
        ELSE layouts

(***************************************************************************)
(* Inputs of the Compatibility subsystem                                   *)
(***************************************************************************)
\* compiler releases: <<major, minor, patch>>
Releases == {<<1, 72, 0>>, <<1, 72, 1>>, <<1, 75, 0>>, <<2, 72, 0>>}

Commits == {"c1", "c2"}

\* two layouts of one struct: the offset of its field differs
Layouts ==
    {StructLayout("Config", 8, 4, <<StructField("id", 0, 4)>>),
     StructLayout("Config", 8, 4, <<StructField("id", 4, 4)>>)}

Descriptors ==
    {Compatibility(r[1], r[2], r[3], stable, commit, structs) :
        r \in Releases, stable \in BOOLEAN, commit \in Commits,
        structs \in SeqsUpTo(Layouts, MaxStructs)}

(***************************************************************************)
(* Actions of the Compatibility subsystem                                  *)
(***************************************************************************)
InitCompatibility == AllIdle

\* two Compatibility values are at hand: the host's and the plugin's
CompatibilityNew ==
    /\ descriptors = None
    /\ \E a \in Descriptors, b \in Descriptors : descriptors' = Some(<<a, b>>)
    /\ UNCHANGED <<compared, verdict>>
    /\ UNCHANGED notCompatVars

\* Compatibility::are_compatible(x, y), x and y each one of the two values
AreCompatible ==
    /\ IsSome(descriptors)
    /\ \E i \in 1..2, j \in 1..2 :
        /\ compared' = Some(<<i, j>>)
        /\ verdict' = Some(Compatibility_are_compatible(Unwrap(descriptors)[i],
                                                        Unwrap(descriptors)[j]))
    /\ UNCHANGED descriptors
    /\ UNCHANGED notCompatVars

NextCompatibility ==
    \/ CompatibilityNew
    \/ AreCompatible

SpecCompatibility == InitCompatibility /\ [][NextCompatibility]_vars

(***************************************************************************)
(* Claims about the Compatibility subsystem                                *)
(***************************************************************************)
\* the first and the second argument of the last call
ComparedA == Unwrap(descriptors)[Unwrap(compared)[1]]

ComparedB == Unwrap(descriptors)[Unwrap(compared)[2]]

\* C20 -- are_compatible(a, b) returns true exactly when (a and b are both
\* stable and have the same major, minor and patch numbers, whatever their
\* commits, or else a and b are equal in every field) and the struct-layout
\* lists of a and b have the same length and the same layout at each
\* position; the relation is reflexive, symmetric and transitive.
C20_CompatibilityEquivalence ==
    IsSome(verdict) =>
        LET a == ComparedA
            b == ComparedB
            v == Unwrap(verdict)
            SameRelease == a.major = b.major /\ a.minor = b.minor /\ a.patch = b.patch
            AllEqual == /\ SameRelease /\ a.stable = b.stable /\ a.commit = b.commit
                        /\ a.structs = b.structs
            SameStructs == /\ Len(a.structs) = Len(b.structs)
                           /\ \A i \in 1..Len(a.structs) : a.structs[i] = b.structs[i]
        IN  /\ v <=> /\ IF a.stable /\ b.stable THEN SameRelease ELSE AllEqual
                     /\ SameStructs
            /\ Unwrap(compared)[1] = Unwrap(compared)[2] => v
            /\ v = Compatibility_are_compatible(b, a)
            /\ v => \A c \in Descriptors :
                        Compatibility_are_compatible(b, c) => Compatibility_are_compatible(a, c)

\* two stable descriptors of one release and of different commits, each with
\* the same two struct layouts, were compared and found compatible
C20_Witness ==
    /\ verdict = Some(TRUE)
    /\ Unwrap(compared) = <<1, 2>>
    /\ ComparedA.stable /\ ComparedB.stable
    /\ ComparedA.commit # ComparedB.commit
    /\ Len(ComparedA.structs) = 2
    /\ ComparedA.structs[1] # ComparedA.structs[2]
    /\ ComparedA.structs = ComparedB.structs

=============================================================================
